---- MODULE Spec2Model ----
(***************************************************************************)
(* State-machine model of the question-answering service in src/main.py:   *)
(* the startup hook that builds the in-memory vector store once, and the   *)
(* POST /ask handler that retrieves the top chunks, calls the generator    *)
(* and formats the response.                                               *)
(*                                                                         *)
(* Text is modelled as a sequence of one-character strings so that         *)
(* strip(), join() and the "in" containment test are computed character by *)
(* character, as Python computes them.                                     *)
(***************************************************************************)
EXTENDS Integers, Sequences, FiniteSets, TLC

VARIABLES vector_store, startup, req, llm_memo

vars == <<vector_store, startup, req, llm_memo>>

(***************************************************************************)
(* Bounds of the model.                                                    *)
(***************************************************************************)
\* Number of /ask calls that may be in flight or completed in one run.
MaxRequests == 2

\* Largest k for which the top-k result lists are compared with each other.
MaxK == 4

(***************************************************************************)
(* Program constants.                                                      *)
(***************************************************************************)
\* search_kwargs={'k': 2}
K == 2

\* RecursiveCharacterTextSplitter(chunk_size=500, ...)
chunk_size == 500

\* HTTPException(status_code=500, ...)
HTTP_500 == 500

ARTICLE_1 ==
    <<"\n","A","r","t","i","c","l","e"," ","1",":"," ","I","n","t","r","o",
      "d","u","c","t","i","o","n"," ","t","o"," ","G","o","o","g","l","e",
      " ","A","d","s"," ","f","o","r"," ","S","m","a","l","l"," ","B","u",
      "s","i","n","e","s","s","\n","\n">>

ARTICLE_2 ==
    <<"\n","A","r","t","i","c","l","e"," ","2",":"," ","U","n","d","e","r",
      "s","t","a","n","d","i","n","g"," ","M","e","t","a"," ","(","F","a",
      "c","e","b","o","o","k",")"," ","A","d"," ","C","a","m","p","a","i",
      "g","n","s","\n","\n">>

ARTICLE_3 ==
    <<"\n","A","r","t","i","c","l","e"," ","3",":"," ","T","h","e"," ","I",
      "m","p","o","r","t","a","n","c","e"," ","o","f"," ","L","a","n","d",
      "i","n","g"," ","P","a","g","e","s","\n">>

ARTICLE_4 ==
    <<"\n","A","r","t","i","c","l","e"," ","4",":"," ","U","r","b","a","n",
      "C","l","a","p"," ","C","a","s","e"," ","S","t","u","d","y","\n">>

\* The four hard-coded documents: page content and metadata["source"].
KNOWLEDGE_BASE ==
    << [page_content |-> ARTICLE_1, source |-> "Article 1: Introduction to Google Ads"],
       [page_content |-> ARTICLE_2, source |-> "Article 2: Understanding Meta Ads"],
       [page_content |-> ARTICLE_3, source |-> "Article 3: The Importance of Landing Pages"],
       [page_content |-> ARTICLE_4, source |-> "UrbanClap Case Study"] >>

\* The three spellings of the sentinel that the handler names.
SENTINEL_UPPER ==
    <<"C","O","N","T","E","X","T","_","N","O","T","_","F","O","U","N","D">>

SENTINEL_LOWER ==
    <<"c","o","n","t","e","x","t","_","n","o","t","_","f","o","u","n","d">>

SENTINEL_MIXED ==
    <<"C","o","n","T","E","X","T","_","N","O","T","_","F","O","U","N","D">>

\* final_answer of the not-found branch.
NOT_FOUND_ANSWER ==
    <<"I"," ","c","o","u","l","d"," ","n","o","t"," ","f","i","n","d"," ",
      "a","n"," ","a","n","s","w","e","r"," ","t","o"," ","y","o","u","r",
      " ","q","u","e","s","t","i","o","n"," ","i","n"," ","t","h","e"," ",
      "p","r","o","v","i","d","e","d"," ","m","a","r","k","e","t","i","n",
      "g"," ","a","r","t","i","c","l","e","s",".">>

\* source_text of the not-found branch.
NO_CONTEXT_SOURCE ==
    <<"N","o"," ","r","e","l","e","v","a","n","t"," ","c","o","n","t","e",
      "x","t"," ","f","o","u","n","d",".">>

\* The delimiter of "\n---\n".join(...).
SOURCE_DELIMITER ==
    <<"\n","-","-","-","\n">>

\* Status tags of AskResponse.
STATUS_NOT_FOUND == "CONTEXT_NOT_FOUND"

STATUS_ANSWERED == "ANSWERED_FROM_CONTEXT"

\* detail of the HTTPException raised when the store is None.
DETAIL_UNAVAILABLE == <<"Vector store is not available.">>

\* detail of the HTTPException raised by the except clause, for exception e.
DetailProcessing(e) == <<"An error occurred while processing your request: ", e>>

(***************************************************************************)
(* Inputs: the questions a client may send and the raw texts the generator *)
(* may produce.                                                            *)
(***************************************************************************)
\* question_2 of the client script.
QUESTION_LANDING ==
    <<"W","h","a","t"," ","i","s"," ","a"," ","l","a","n","d","i","n","g",
      " ","p","a","g","e"," ","a","n","d"," ","w","h","y"," ","i","s"," ",
      "i","t"," ","i","m","p","o","r","t","a","n","t","?">>

\* The empty question and one question of the client script.
Questions == { <<>>, QUESTION_LANDING }

TEXT_GROUNDED ==
    <<" ","A"," ","l","a","n","d","i","n","g"," ","p","a","g","e"," ","c",
      "o","n","v","e","r","t","s"," ","v","i","s","i","t","o","r","s",".",
      "\n">>

TEXT_UPPER ==
    <<"C","O","N","T","E","X","T","_","N","O","T","_","F","O","U","N","D",
      "\n">>

TEXT_LOWER ==
    <<"S","o","r","r","y",":"," ","c","o","n","t","e","x","t","_","n","o",
      "t","_","f","o","u","n","d",".">>

TEXT_MIXED ==
    <<" ","C","o","n","T","E","X","T","_","N","O","T","_","F","O","U","N",
      "D">>

\* Raw generator outputs: grounded prose, each sentinel spelling, and the
\* empty text.
GenTexts == { TEXT_GROUNDED, TEXT_UPPER, TEXT_LOWER, TEXT_MIXED, <<>> }

(***************************************************************************)
(* Python string operations.                                               *)
(***************************************************************************)
IsSpace(c) == c \in {" ", "\n", "\t", "\r"}

RECURSIVE LStrip(_)
LStrip(s) ==
    IF s = <<>> THEN <<>>
    ELSE IF IsSpace(Head(s)) THEN LStrip(Tail(s)) ELSE s

RECURSIVE RStrip(_)
RStrip(s) ==
    IF s = <<>> THEN <<>>
    ELSE IF IsSpace(s[Len(s)]) THEN RStrip(SubSeq(s, 1, Len(s) - 1)) ELSE s

\* str.strip()
Strip(s) == RStrip(LStrip(s))

\* sub in s
Contains(sub, s) ==
    \E i \in 1..(Len(s) - Len(sub) + 1) : SubSeq(s, i, i + Len(sub) - 1) = sub

\* delim.join(parts)
RECURSIVE Join(_, _)
Join(delim, parts) ==
    IF parts = <<>> THEN <<>>
    ELSE IF Len(parts) = 1 THEN parts[1]
    ELSE parts[1] \o delim \o Join(delim, Tail(parts))

\* Python values of the two types the sentinel expression mixes.
PyStr(s) == [t |-> "str", v |-> s]

PyBool(b) == [t |-> "bool", v |-> b]

\* bool(x): a string is true iff it is non-empty.
Truthy(x) == IF x.t = "str" THEN Len(x.v) > 0 ELSE x.v

\* x or y: the first operand if it is true, else the second.
PyOr(x, y) == IF Truthy(x) THEN x ELSE y

(***************************************************************************)
(* Chunking, embedding and the vector store.                               *)
(***************************************************************************)
\* The splitter applied to one document.  Every document of the knowledge
\* base is shorter than chunk_size, and such a document yields its stripped
\* text as a single chunk that keeps the document's metadata (no chunk at
\* all when nothing but whitespace is left).
SplitDocument(doc) ==
    CASE Len(doc.page_content) <= chunk_size ->
        LET text == Strip(doc.page_content)
        IN  IF text = <<>> THEN <<>>
            ELSE << [page_content |-> text, source |-> doc.source] >>

\* text_splitter.split_documents(docs): the chunks of each document, in order.
RECURSIVE SplitDocuments(_)
SplitDocuments(docs) ==
    IF docs = <<>> THEN <<>>
    ELSE SplitDocument(Head(docs)) \o SplitDocuments(Tail(docs))

\* s.count(c)
CountChar(c, s) == Cardinality({i \in 1..Len(s) : s[i] = c})

\* The embedding model is opaque to the program: any deterministic map from
\* text to a vector.  Three one-dimensional stand-ins, one of which embeds
\* every text at the same point (all distances tie).
EmbeddingModels == {"length", "spaces", "constant"}

\* embeddings.embed_query(text) / embed_documents([text])
Embed(m, text) ==
    CASE m = "length"   -> Len(text)
      [] m = "spaces"   -> CountChar(" ", text)
      [] m = "constant" -> 0

\* The value of the global before startup assigns it.
None == [is_none |-> TRUE, docstore |-> <<>>, index |-> <<>>, embedding |-> "none"]

\* FAISS.from_documents(chunks, embedding=embeddings): one vector per chunk,
\* in chunk order, beside the chunks themselves and the embedding function.
FromDocuments(chunks, m) ==
    [is_none   |-> FALSE,
     docstore  |-> chunks,
     index     |-> [i \in 1..Len(chunks) |-> Embed(m, chunks[i].page_content)],
     embedding |-> m]

\* Squared Euclidean distance of the flat index.
L2(a, b) == (a - b) * (a - b)

\* retriever.invoke(query) with search_kwargs {'k': k}: the k nearest chunks
\* by increasing distance to the query's embedding, equal distances in
\* insertion order; all the chunks when the store holds fewer than k.
SimilaritySearch(store, query, k) ==
    LET n == Len(store.docstore)
        qv == Embed(store.embedding, query)
        d(i) == L2(store.index[i], qv)
        Before(i, j) == d(i) < d(j) \/ (d(i) = d(j) /\ i < j)
        rank(i) == Cardinality({j \in 1..n : Before(j, i)}) + 1
        m == IF k < n THEN k ELSE n
    IN  [p \in 1..m |-> store.docstore[CHOOSE i \in 1..n : rank(i) = p]]

\* [doc.page_content for doc in context_docs]
PageContents(docs) == [i \in 1..Len(docs) |-> docs[i].page_content]

(***************************************************************************)
(* The generator.                                                          *)
(***************************************************************************)
\* The prompt the documents chain formats: the retrieved texts joined by a
\* blank line as {context}, the question as {input}.
Prompt(question, docs) ==
    [context |-> Join(<<"\n", "\n">>, PageContents(docs)), input |-> question]

\* A deterministic generator: the text for a prompt is chosen freely the
\* first time the prompt is seen and repeated ever after.
LLMKnown(p) == \E e \in llm_memo : e.prompt = p

LLMText(p) == (CHOOSE e \in llm_memo : e.prompt = p).text

(***************************************************************************)
(* Outcomes of a call of ask_question.                                     *)
(***************************************************************************)
NoOutcome ==
    [kind |-> "none", status_code |-> 0, detail |-> <<>>,
     answer |-> <<>>, source |-> <<>>, status |-> ""]

\* raise HTTPException(status_code=500, detail=...)
HTTPError(detail) ==
    [kind |-> "HTTPException", status_code |-> HTTP_500, detail |-> detail,
     answer |-> <<>>, source |-> <<>>, status |-> ""]

\* return AskResponse(answer=..., source=..., status=...)
AskResponse(answer, source, status) ==
    [kind |-> "AskResponse", status_code |-> 0, detail |-> <<>>,
     answer |-> answer, source |-> source, status |-> status]

\* The test a containment check over the three spellings would make.
SentinelConditionContainment(answer) ==
    \/ Contains(SENTINEL_UPPER, answer)
    \/ Contains(SENTINEL_LOWER, answer)
    \/ Contains(SENTINEL_MIXED, answer)

\* if "CONTEXT_NOT_FOUND" or "context_not_found" or "ConTEXT_NOT_FOUND" in answer:
\* "in" binds tighter than "or", so only the last string is tested against
\* the answer, and the value of the chain is its first true operand.
SentinelCondition(answer) ==
    Truthy(PyOr(PyStr(SENTINEL_UPPER),
                PyOr(PyStr(SENTINEL_LOWER),
                     PyBool(Contains(SENTINEL_MIXED, answer)))))

\* source_text = "\n---\n".join([doc.page_content for doc in context_docs])
SourceTextDropDelimiter(context_docs) == Join(<<>>, PageContents(context_docs))

SourceText(context_docs) == Join(SOURCE_DELIMITER, PageContents(context_docs))

\* Lines 136-154: from the generator's raw text and the retrieved documents
\* to the response.
BuildResponse(raw, context_docs) ==
    LET answer == Strip(raw)
        source_text == SourceText(context_docs)
    IN  IF SentinelCondition(answer)
        THEN AskResponse(NOT_FOUND_ANSWER, NO_CONTEXT_SOURCE, STATUS_NOT_FOUND)
        ELSE AskResponse(answer, source_text, STATUS_ANSWERED)

\* A variant of the except clause that hands back what was computed so far.
ExceptOutcomePartial(r, e) ==
    AskResponse(Strip(req[r].raw), SourceText(req[r].docs), "ERROR")

\* except Exception as e: raise HTTPException(500, detail=f"...: {e}")
ExceptOutcome(r, e) == HTTPError(DetailProcessing(e))

(***************************************************************************)
(* State.                                                                  *)
(***************************************************************************)
Requests == 1..MaxRequests

\* The locals of one call of ask_question, with its position (pc), what the
\* guard saw (store_seen), whether it ran retrieval and generation, the
\* exception raised inside the try block (exc), whether that exception was
\* an outage of an external service (fault), and the outcome.
IdleRequest ==
    [pc |-> "idle", question |-> <<>>, store_seen |-> FALSE,
     docs |-> <<>>, raw |-> <<>>, source_text |-> <<>>,
     retrieved |-> FALSE, generated |-> FALSE,
     exc |-> "none", fault |-> FALSE, outcome |-> NoOutcome]

Init ==
    /\ vector_store = None
    /\ startup = [pc |-> "start", chunks |-> <<>>, embeddings |-> "none",
                  exc |-> "none", result |-> "running"]
    /\ req = [r \in Requests |-> IdleRequest]
    /\ llm_memo = {}

(***************************************************************************)
(* startup_event.                                                          *)
(***************************************************************************)
\* chunks = text_splitter.split_documents(KNOWLEDGE_BASE)
StartupSplit ==
    /\ startup.pc = "start"
    /\ startup' = [startup EXCEPT !.pc = "split",
                                  !.chunks = SplitDocuments(KNOWLEDGE_BASE)]
    /\ UNCHANGED <<vector_store, req, llm_memo>>

\* embeddings = HuggingFaceEmbeddings(model_name=...)
StartupLoadEmbeddings ==
    /\ startup.pc = "split"
    /\ \E m \in EmbeddingModels :
          startup' = [startup EXCEPT !.pc = "embed", !.embeddings = m]
    /\ UNCHANGED <<vector_store, req, llm_memo>>

\* A variant that publishes the store after indexing only the first chunk.
StartupBuildIndexPartial ==
    /\ startup.pc = "embed"
    /\ vector_store' = FromDocuments(SubSeq(startup.chunks, 1, 1), startup.embeddings)
    /\ startup' = [startup EXCEPT !.pc = "ready", !.result = "returned"]
    /\ UNCHANGED <<req, llm_memo>>

\* vector_store = FAISS.from_documents(chunks, embedding=embeddings): the
\* global is assigned when the call has returned, and startup_event returns.
StartupBuildIndex ==
    /\ startup.pc = "embed"
    /\ vector_store' = FromDocuments(startup.chunks, startup.embeddings)
    /\ startup' = [startup EXCEPT !.pc = "ready", !.result = "returned"]
    /\ UNCHANGED <<req, llm_memo>>

\* The step of startup_event that is about to run, as the exception it
\* would raise.
StepException ==
    CASE startup.pc = "start" -> "SplitError"
      [] startup.pc = "split" -> "EmbeddingsLoadError"
      [] startup.pc = "embed" -> "IndexBuildError"

\* A variant of the except clause that logs the error and returns.
StartupFailSwallowed ==
    /\ startup.pc \in {"start", "split", "embed"}
    /\ startup' = [startup EXCEPT !.pc = "ready", !.exc = StepException,
                                  !.result = "returned"]
    /\ UNCHANGED <<vector_store, req, llm_memo>>

\* The step about to run throws: the except clause logs the error and
\* raises RuntimeError out of startup_event.  The global was not assigned.
StartupFail ==
    /\ startup.pc \in {"start", "split", "embed"}
    /\ startup' = [startup EXCEPT !.pc = "failed", !.exc = StepException,
                                  !.result = "RuntimeError"]
    /\ UNCHANGED <<vector_store, req, llm_memo>>

(***************************************************************************)
(* ask_question.  The handler is a coroutine without an await, so one      *)
(* event loop runs its calls one after another; several workers or threads *)
(* calling it overlap.  The handler is split at its calls of external      *)
(* services (retrieval, generation) and calls of different requests may    *)
(* interleave at these points and with the steps of startup_event: every   *)
(* serial schedule is one of these interleavings.                          *)
(***************************************************************************)
\* Requests are numbered in order of arrival.
InArrivalOrder(r) == IF r = 1 THEN TRUE ELSE req[r - 1].pc # "idle"

\* A variant without the "vector_store is None" guard.
AskEnterNoGuard(r, q) ==
    /\ req[r].pc = "idle"
    /\ InArrivalOrder(r)
    /\ req' = [req EXCEPT ![r] = [@ EXCEPT !.pc = "retrieve", !.question = q,
                                           !.store_seen = ~vector_store.is_none]]
    /\ UNCHANGED <<vector_store, startup, llm_memo>>

\* The call arrives with question q and the guard reads the global: HTTP 500
\* when it is None, else the handler goes on into the try block.
AskEnter(r, q) ==
    /\ req[r].pc = "idle"
    /\ InArrivalOrder(r)
    /\ IF vector_store = None
       THEN req' = [req EXCEPT ![r] = [@ EXCEPT !.pc = "done", !.question = q,
                                                !.store_seen = FALSE,
                                                !.outcome = HTTPError(DETAIL_UNAVAILABLE)]]
       ELSE req' = [req EXCEPT ![r] = [@ EXCEPT !.pc = "retrieve", !.question = q,
                                                !.store_seen = TRUE]]
    /\ UNCHANGED <<vector_store, startup, llm_memo>>

\* The state of request r after exception e is raised inside the try block.
Excepted(r, e, is_fault) ==
    [req EXCEPT ![r] = [@ EXCEPT !.pc = "done", !.exc = e, !.fault = is_fault,
                                 !.outcome = ExceptOutcome(r, e)]]

\* A variant that rebinds the global while building the retriever.
AskRetrieveClobber(r) ==
    /\ req[r].pc = "retrieve"
    /\ IF vector_store = None
       THEN req' = Excepted(r, "AttributeError", FALSE) /\ UNCHANGED vector_store
       ELSE /\ req' = [req EXCEPT ![r] = [@ EXCEPT
                         !.pc = "generate", !.retrieved = TRUE,
                         !.docs = SimilaritySearch(vector_store, req[r].question, K)]]
            /\ vector_store' = None
    /\ UNCHANGED <<startup, llm_memo>>

\* retriever = vector_store.as_retriever(search_kwargs={'k': 2}) and the
\* retrieval half of retrieval_chain.invoke: the global is read again here
\* (None has no as_retriever: AttributeError, caught by the except clause).
AskRetrieve(r) ==
    /\ req[r].pc = "retrieve"
    /\ IF vector_store = None
       THEN req' = Excepted(r, "AttributeError", FALSE)
       ELSE req' = [req EXCEPT ![r] = [@ EXCEPT
                      !.pc = "generate", !.retrieved = TRUE,
                      !.docs = SimilaritySearch(vector_store, req[r].question, K)]]
    /\ UNCHANGED <<vector_store, startup, llm_memo>>

\* Embedding the question or searching the index raises.
AskRetrieveFault(r) ==
    /\ req[r].pc = "retrieve"
    /\ req' = Excepted(r, "RetrievalError", TRUE)
    /\ UNCHANGED <<vector_store, startup, llm_memo>>

\* The generation half of retrieval_chain.invoke: the generator's text for
\* the prompt built from the question and the retrieved documents.
AskGenerate(r) ==
    /\ req[r].pc = "generate"
    /\ LET p == Prompt(req[r].question, req[r].docs)
       IN  \E t \in GenTexts :
              /\ LLMKnown(p) => t = LLMText(p)
              /\ llm_memo' = llm_memo \cup {[prompt |-> p, text |-> t]}
              /\ req' = [req EXCEPT ![r] = [@ EXCEPT !.pc = "respond",
                                                     !.generated = TRUE, !.raw = t]]
    /\ UNCHANGED <<vector_store, startup>>

\* The generator call raises (the model runtime is unreachable).
AskGenerateFault(r) ==
    /\ req[r].pc = "generate"
    /\ req' = Excepted(r, "GenerationError", TRUE)
    /\ UNCHANGED <<vector_store, startup, llm_memo>>

\* A variant that drops the store once the response is built.
AskRespondReset(r) ==
    /\ req[r].pc = "respond"
    /\ req' = [req EXCEPT ![r] = [@ EXCEPT
                 !.pc = "done", !.source_text = SourceText(req[r].docs),
                 !.outcome = BuildResponse(req[r].raw, req[r].docs)]]
    /\ vector_store' = None
    /\ UNCHANGED <<startup, llm_memo>>

\* A variant that adds the question to the index when it responds.
AskRespondLearn(r) ==
    /\ req[r].pc = "respond"
    /\ req' = [req EXCEPT ![r] = [@ EXCEPT
                 !.pc = "done", !.source_text = SourceText(req[r].docs),
                 !.outcome = BuildResponse(req[r].raw, req[r].docs)]]
    /\ vector_store' =
          FromDocuments(vector_store.docstore \o
                           << [page_content |-> req[r].question, source |-> "question"] >>,
                        vector_store.embedding)
    /\ UNCHANGED <<startup, llm_memo>>

\* Lines 136-154: strip the answer, join the sources, test the sentinel and
\* return the AskResponse.  source_text keeps the value line 140 computes.
AskRespond(r) ==
    /\ req[r].pc = "respond"
    /\ req' = [req EXCEPT ![r] = [@ EXCEPT
                 !.pc = "done", !.source_text = SourceText(req[r].docs),
                 !.outcome = BuildResponse(req[r].raw, req[r].docs)]]
    /\ UNCHANGED <<vector_store, startup, llm_memo>>

Next ==
    \/ StartupSplit
    \/ StartupLoadEmbeddings
    \/ StartupBuildIndex
    \/ StartupFail
    \/ \E r \in Requests, q \in Questions : AskEnter(r, q)
    \/ \E r \in Requests : AskRetrieve(r)
    \/ \E r \in Requests : AskRetrieveFault(r)
    \/ \E r \in Requests : AskGenerate(r)
    \/ \E r \in Requests : AskGenerateFault(r)
    \/ \E r \in Requests : AskRespond(r)

Spec == Init /\ [][Next]_vars

(***************************************************************************)
(* Properties.                                                             *)
(***************************************************************************)
\* The store a successful startup builds: every chunk of the knowledge
\* base, embedded with the model startup loaded.
FullStore == FromDocuments(SplitDocuments(KNOWLEDGE_BASE), startup.embeddings)

IndexFullyBuilt ==
    /\ startup.pc = "ready"
    /\ vector_store # None
    /\ vector_store = FullStore
    /\ Len(vector_store.docstore) = Len(KNOWLEDGE_BASE)
    /\ Len(vector_store.index) = Len(vector_store.docstore)

InTryBlock(r) == req[r].pc \in {"retrieve", "generate", "respond"}

\* C1: a request that is at, or has passed, the retrieve-then-generate step
\* only ever works against the fully built index: whenever some request is
\* inside the try block or has run retrieval or generation, startup has
\* completed and vector_store is the complete store, never None and never a
\* partial one, whatever the order of startup steps and /ask calls.
C1_ServedOnlyAgainstBuiltIndex ==
    \A r \in Requests :
        (InTryBlock(r) \/ req[r].retrieved \/ req[r].generated) => IndexFullyBuilt

\* One call was refused before the index existed and a later one is past
\* retrieval, waiting for the generator.
C1_Witness ==
    \E r1, r2 \in Requests :
        /\ req[r1].outcome = HTTPError(DETAIL_UNAVAILABLE)
        /\ req[r2].pc = "generate" /\ req[r2].retrieved

\* C3: a call of /ask whose guard finds vector_store None ends at once with
\* HTTP 500 "Vector store is not available.": it is finished (no hang), its
\* outcome is the HTTPException (no crash, no AskResponse), and it ran
\* neither retrieval nor generation.
C3_UninitializedGives500 ==
    \A r \in Requests :
        (req[r].pc # "idle" /\ ~req[r].store_seen) =>
            /\ req[r].pc = "done"
            /\ req[r].outcome = HTTPError(DETAIL_UNAVAILABLE)
            /\ req[r].outcome.status_code = 500
            /\ ~req[r].retrieved /\ ~req[r].generated
            /\ req[r].exc = "none"

\* A call made while startup is between loading the embeddings and building
\* the index.
C3_Witness ==
    \E r \in Requests :
        /\ req[r].pc = "done" /\ ~req[r].store_seen
        /\ startup.pc = "embed"

\* C4: when a step of startup_event throws, startup_event ends by raising
\* RuntimeError and never returns normally, vector_store is still None, and
\* no /ask call holds or ever obtains an AskResponse or gets into the try
\* block.
C4_StartupFailFast ==
    startup.exc # "none" =>
        /\ startup.pc = "failed" /\ startup.result = "RuntimeError"
        /\ vector_store = None
        /\ \A r \in Requests :
              /\ req[r].outcome.kind # "AskResponse"
              /\ ~InTryBlock(r)
              /\ req[r].pc = "done" => req[r].outcome = HTTPError(DETAIL_UNAVAILABLE)

\* Building the index threw and every call has been made and answered.
C4_Witness ==
    /\ startup.exc = "IndexBuildError"
    /\ \A r \in Requests : req[r].pc = "done"

\* C5: a request in which retrieval or generation raised is finished with
\* HTTP 500 whose detail carries the exception, holds no answer, source or
\* status, and the index is still the complete store.
C5_ExceptionGives500 ==
    \A r \in Requests :
        req[r].exc # "none" =>
            /\ req[r].pc = "done"
            /\ req[r].outcome = HTTPError(DetailProcessing(req[r].exc))
            /\ req[r].outcome.kind = "HTTPException"
            /\ req[r].outcome.status_code = 500
            /\ req[r].outcome.answer = <<>> /\ req[r].outcome.source = <<>>
            /\ req[r].outcome.status = ""
            /\ IndexFullyBuilt

\* One request failed in generation after its retrieval had produced
\* documents, another failed in retrieval.
C5_Witness ==
    \E r1, r2 \in Requests :
        /\ req[r1].exc = "GenerationError" /\ req[r1].docs # <<>>
        /\ req[r2].exc = "RetrievalError"

\* What a request with this question returns when it is the only one to run
\* against the complete store (no outage of an external service).
AloneKnown(q) == LLMKnown(Prompt(q, SimilaritySearch(FullStore, q, K)))

AloneOutcome(q) ==
    LET docs == SimilaritySearch(FullStore, q, K)
    IN  BuildResponse(LLMText(Prompt(q, docs)), docs)

\* C6: every finished request that passed the guard and met no outage of an
\* external service has exactly the outcome it would have had running
\* alone, whatever other requests were interleaved with it.
C6_OutcomeAsIfAlone ==
    \A r \in Requests :
        (req[r].pc = "done" /\ req[r].store_seen /\ ~req[r].fault) =>
            /\ req[r].outcome.kind = "AskResponse"
            /\ AloneKnown(req[r].question)
            /\ req[r].outcome = AloneOutcome(req[r].question)

\* The second request to arrive has finished with a response while the
\* first, with a different question, is still between generation and
\* response.
C6_Witness ==
    /\ req[1].pc = "respond"
    /\ req[2].pc = "done" /\ req[2].outcome.kind = "AskResponse"
    /\ req[1].question # req[2].question

\* C7: vector_store changes only in the step in which startup_event
\* succeeds, from None to the built store; that step changes no request,
\* and no step of any /ask call changes vector_store.
C7_IndexWrittenOnce ==
    [][vector_store' # vector_store =>
          /\ vector_store = None
          /\ startup.pc = "embed" /\ startup'.pc = "ready"
          /\ vector_store' = FromDocuments(startup.chunks, startup.embeddings)
          /\ req' = req]_vars

\* The store is built, one request got a response and another ended in an
\* error.
C7_Witness ==
    /\ vector_store # None
    /\ \E r1, r2 \in Requests :
          /\ req[r1].outcome.kind = "AskResponse"
          /\ req[r2].exc # "none"

Distance(store, doc, q) ==
    L2(Embed(store.embedding, doc.page_content), Embed(store.embedding, q))

\* Offset of the i-th text inside the texts joined by the delimiter.
RECURSIVE JoinOffset(_, _)
JoinOffset(texts, i) ==
    IF i = 1 THEN 0
    ELSE JoinOffset(texts, i - 1) + Len(texts[i - 1]) + Len(SOURCE_DELIMITER)

IsJoined(s, texts) ==
    LET n == Len(texts)
    IN  /\ Len(s) = (IF n = 0 THEN 0 ELSE JoinOffset(texts, n) + Len(texts[n]))
        /\ \A i \in 1..n :
              SubSeq(s, JoinOffset(texts, i) + 1,
                        JoinOffset(texts, i) + Len(texts[i])) = texts[i]
        /\ \A i \in 1..(n - 1) :
              SubSeq(s, JoinOffset(texts, i) + Len(texts[i]) + 1,
                        JoinOffset(texts, i + 1)) = SOURCE_DELIMITER

FixedNotFoundResponse ==
    AskResponse(NOT_FOUND_ANSWER, NO_CONTEXT_SOURCE, STATUS_NOT_FOUND)

\* C10: every request that returns an AskResponse returns the fixed
\* not-found answer, the source "No relevant context found." and status
\* "CONTEXT_NOT_FOUND", whatever text the generator produced; status
\* "ANSWERED_FROM_CONTEXT" is never returned.
C10_AlwaysContextNotFound ==
    \A r \in Requests :
        req[r].outcome.kind = "AskResponse" =>
            /\ req[r].outcome = FixedNotFoundResponse
            /\ req[r].outcome.status # STATUS_ANSWERED

\* A request whose generator text was grounded prose without any sentinel
\* has returned its response.
C10_Witness ==
    \E r \in Requests :
        /\ req[r].outcome.kind = "AskResponse"
        /\ req[r].raw = TEXT_GROUNDED
        /\ ~SentinelConditionContainment(Strip(req[r].raw))

\* C2: the response follows a true containment test: an answer containing
\* the sentinel in one of the three spellings gives the fixed not-found
\* response; an answer without it gives status "ANSWERED_FROM_CONTEXT" with
\* the generator's (stripped) text as the answer and the joined chunk texts
\* as the source.
C2_TrueContainmentTest ==
    \A r \in Requests :
        req[r].outcome.kind = "AskResponse" =>
            IF SentinelConditionContainment(Strip(req[r].raw))
            THEN req[r].outcome = FixedNotFoundResponse
            ELSE req[r].outcome =
                    AskResponse(Strip(req[r].raw), SourceText(req[r].docs),
                                STATUS_ANSWERED)

====
